---- MODULE Spec2Model ----
(***************************************************************************)
(* Model of src/a.py (ReelsRecap): one video attachment travelling through *)
(* handle_webhook -> process_video_message -> download_video ->            *)
(* summarize_video (video_to_frames, extract_audio, Gemini calls) ->       *)
(* send_reply -> cleanup.                                                  *)
(*                                                                         *)
(* The environment (HTTP, the decoder, the file system, the model service) *)
(* is a nondeterministic choice of outcome at the step that uses it.       *)
(*                                                                         *)
(* Spec            the whole pipeline for one attachment                   *)
(* SpecFrames      video_to_frames for every video and interval            *)
(* SpecRequest     the request assembly and model calls for any frame list *)
(* SpecConcurrent  several requests sharing the temporary directory        *)
(***************************************************************************)
EXTENDS Integers, Sequences, FiniteSets, TLC

\* ---------------------------------------------------------------- bounds
MaxDuration == 10     \* longest video, in whole seconds
MaxInterval == 3      \* largest sampling interval handed to video_to_frames
MaxChunks   == 2      \* most 8192-byte chunks the response body streams
MaxFrames   == 3      \* longest frame list handed to the request assembly
MaxBadAt    == 2      \* latest instant at which a video has an unreadable frame
NumRequests == 2      \* requests handled at the same time
NumNames    == 2      \* names the temporary directory offers per suffix

\* ------------------------------------------------------- program literals
ACK_TEXT        == "Processing your video, please wait..."
DOWNLOAD_FAILED == "Sorry, I couldn't download the video."
NO_CONTENT      == "Could not summarize video: No frames or audio."
GEMINI_ERROR    == "Could not summarize video: Gemini API error: {e}"
PROMPT          == "Summarize this video under 100 words"
SUMMARY_TEXT    == "response.text"
None            == "None"
NoExc           == "none"
NoBadFrame      == -1
VIDEO_TMP       == "tmp.mp4"
AUDIO_TMP       == "tmp.mp3"
FrameIntervalArg == [kind |-> "int", val |-> 2]

\* ------------------------------------------------------------ input sets
\* A remote video: whether the decoder can open it, its duration
\* (sec whole seconds, plus a fraction of a second when frac), whether it
\* carries an audio track, and the instant (if any) whose frame the decoder
\* cannot read.  An undecodable file has no further properties.
Videos ==
    { v \in [decodable : {TRUE}, sec : 0..MaxDuration, frac : BOOLEAN,
             has_audio : BOOLEAN, bad_at : {NoBadFrame} \cup 0..MaxBadAt] :
        v.bad_at < v.sec }
    \cup { [decodable |-> FALSE, sec |-> 0, frac |-> FALSE, has_audio |-> FALSE,
            bad_at |-> NoBadFrame] }

\* The values a caller can hand over as frame_interval: Python ints and floats.
Intervals ==
    { [kind |-> k, val |-> n] : k \in {"int", "float"}, n \in 1..MaxInterval }

\* ------------------------------------------------- Python built-ins used
\* float(x): the same number as a Python float.
float(x) == [kind |-> "float", val |-> x.val]

\* int(video.duration): truncation to whole seconds.
int(v) == [kind |-> "int", val |-> v.sec]

\* range(start, stop, step): every argument must be an int (TypeError
\* otherwise), step must not be 0 (ValueError); the members are
\* start, start+step, ... while < stop.
range(start, stop, step) ==
    IF start.kind # "int" \/ stop.kind # "int" \/ step.kind # "int"
    THEN [exc |-> "TypeError", seq |-> << >>]
    ELSE IF step.val = 0
    THEN [exc |-> "ValueError", seq |-> << >>]
    ELSE LET n == IF stop.val <= start.val THEN 0
                  ELSE ((stop.val - start.val) + step.val - 1) \div step.val
         IN  [exc |-> NoExc,
              seq |-> [k \in 1..n |-> start.val + (k - 1) * step.val]]

\* The base64 PNG of the frame the decoder returns for time t.
frame_base64(t) == ToString(t)

\* video_to_frames(video_file, frame_interval), lines 31-60.
\*   ret    the returned list
\*   times  the instants handed to video.get_frame
\*   exc    the exception the except clause swallowed (NoExc if none)
\*   closed whether video.close() ran on a clip that was opened
video_to_frames(v, fi) ==
    LET frame_interval == float(fi)                                \* line 41
    IN  IF ~v.decodable                                            \* line 43
        THEN [ret |-> << >>, times |-> << >>, exc |-> "OSError",
              opened |-> FALSE, closed |-> FALSE]
        ELSE LET duration == int(v)                                \* line 45
                 r == range([kind |-> "int", val |-> 0], duration,
                            frame_interval)                        \* line 48
             IN  IF r.exc # NoExc
                 THEN [ret |-> << >>, times |-> << >>, exc |-> r.exc,
                       opened |-> TRUE, closed |-> FALSE]          \* 58-60
                 ELSE IF \E k \in DOMAIN r.seq : r.seq[k] = v.bad_at  \* line 49
                 THEN LET bad == CHOOSE k \in DOMAIN r.seq : r.seq[k] = v.bad_at
                      IN  [ret |-> << >>, times |-> SubSeq(r.seq, 1, bad),
                           exc |-> "IOError",
                           opened |-> TRUE, closed |-> FALSE]      \* 58-60
                 ELSE [ret |-> [k \in 1..Len(r.seq) |-> frame_base64(r.seq[k])],
                       times |-> r.seq, exc |-> NoExc,
                       opened |-> TRUE, closed |-> TRUE]           \* 56-57

\* ------------------------------------------------------------------ state
VARIABLES
    pc,               \* position in the code
    video,            \* the remote resource behind video_url
    frame_interval,   \* the frame_interval argument of video_to_frames
    chunks,           \* chunks of the response body not yet streamed
    disk,             \* temporary files that exist
    video_file_path,  \* process_video_message's local (None or a path)
    frames,           \* summarize_video's local
    sample_times,     \* instants video_to_frames sampled
    tmp_audio,        \* extract_audio's local audio_file
    audio_file,       \* summarize_video's local (None or a path)
    contents,         \* summarize_video's local
    summary,          \* value summarize_video returned (None before / on raise)
    exc,              \* exception propagating out of the current function
    status,           \* HTTP status handle_webhook answers with (0: not yet)
    model_calls,      \* calls made on the GenerativeModel, in order
    unclosed_clips,   \* VideoFileClip objects opened and not closed by close()
    log               \* external operations performed, in order

vars == << pc, video, frame_interval, chunks, disk, video_file_path, frames,
           sample_times, tmp_audio, audio_file, contents, summary, exc,
           status, model_calls, unclosed_clips, log >>

Event(op, arg, res) == [op |-> op, arg |-> arg, res |-> res]

Logged(e) == log' = Append(log, e)

\* Outcomes of the external calls.
SendOutcomes   == {"200", "non200", "raise"}     \* requests.post, lines 206-210
RemoveOutcomes == {"ok", "raise"}                \* os.remove

\* send_reply(sender_id, message_text), lines 198-210: one POST; a non-200
\* answer is only printed, an exception of requests.post propagates.
send_reply(text, outcome) == Logged(Event("send_reply", text, outcome))

\* ------------------------------------------------------------------- Init
Init ==
    /\ pc = "ack"
    /\ video \in Videos
    /\ frame_interval = FrameIntervalArg
    /\ chunks \in 0..MaxChunks
    /\ disk = {}
    /\ video_file_path = None
    /\ frames = << >>
    /\ sample_times = << >>
    /\ tmp_audio = None
    /\ audio_file = None
    /\ contents = << >>
    /\ summary = None
    /\ exc = NoExc
    /\ status = 0
    /\ model_calls = << >>
    /\ unclosed_clips = 0
    /\ log = << >>

\* ---------------------------------------------------------- handle_webhook
\* Variant of handle_webhook_ack that calls process_video_message without
\* having sent the acknowledgement.
handle_webhook_ack_missing ==
    /\ pc = "ack"
    /\ pc' = "dl_get"
    /\ UNCHANGED << unclosed_clips, video, frame_interval, chunks, disk, video_file_path,
                    frames, sample_times, tmp_audio, audio_file, contents,
                    summary, exc, status, model_calls, log >>

\* Lines 158-162: the acknowledgement, then process_video_message.  An
\* exception of send_reply is caught at line 171.
handle_webhook_ack ==
    /\ pc = "ack"
    /\ \E o \in SendOutcomes :
         /\ send_reply(ACK_TEXT, o)
         /\ IF o = "raise"
            THEN pc' = "wh_end" /\ exc' = "RequestException"
            ELSE pc' = "dl_get" /\ exc' = exc
    /\ UNCHANGED << unclosed_clips, video, frame_interval, chunks, disk, video_file_path,
                    frames, sample_times, tmp_audio, audio_file, contents,
                    summary, status, model_calls >>

\* Lines 168-175: the answer of the handler; anything that escaped
\* process_video_message (or send_reply) gives 500.
handle_webhook_return ==
    /\ pc = "wh_end"
    /\ status' = IF exc = NoExc THEN 200 ELSE 500
    /\ pc' = "done"
    /\ UNCHANGED << unclosed_clips, video, frame_interval, chunks, disk, video_file_path,
                    frames, sample_times, tmp_audio, audio_file, contents,
                    summary, exc, model_calls, log >>

\* ---------------------------------------------------------- download_video
\* Lines 184-185: requests.get and raise_for_status.  Both failures are
\* RequestExceptions: caught at line 193, download_video returns None.
download_video_get ==
    /\ pc = "dl_get"
    /\ \E o \in {"ok", "ConnectionError", "HTTPError"} :
         /\ Logged(Event("requests.get", "video_url", o))
         /\ pc' = IF o = "ok" THEN "dl_tmp" ELSE "pvm_check"
    /\ video_file_path' = None
    /\ UNCHANGED << unclosed_clips, video, frame_interval, chunks, disk, frames, sample_times,
                    tmp_audio, audio_file, contents, summary, exc, status,
                    model_calls >>

\* Lines 187-188: the temporary file is created (delete=False) and opened.
\* An OSError here is no RequestException: it leaves download_video and,
\* line 215 being outside the try, process_video_message.
download_video_tempfile ==
    /\ pc = "dl_tmp"
    /\ \E o \in {"ok", "OSError"} :
         /\ Logged(Event("NamedTemporaryFile", VIDEO_TMP, o))
         /\ IF o = "ok"
            THEN /\ disk' = disk \cup {VIDEO_TMP}
                 /\ pc' = "dl_chunk"
                 /\ exc' = exc
            ELSE /\ disk' = disk
                 /\ pc' = "wh_end"
                 /\ exc' = "OSError"
    /\ UNCHANGED << unclosed_clips, video, frame_interval, chunks, video_file_path, frames,
                    sample_times, tmp_audio, audio_file, contents, summary,
                    status, model_calls >>

\* Lines 189-190: one chunk of the body is read and written.  A network
\* error while streaming is a RequestException (None is returned, the file
\* stays); a failed write is an OSError and propagates.
download_video_chunk ==
    /\ pc = "dl_chunk"
    /\ chunks > 0
    /\ \E o \in {"ok", "ChunkedEncodingError", "OSError"} :
         /\ Logged(Event("iter_content", VIDEO_TMP, o))
         /\ CASE o = "ok" ->
                   /\ chunks' = chunks - 1
                   /\ pc' = "dl_chunk"
                   /\ exc' = exc
              [] o = "ChunkedEncodingError" ->
                   /\ chunks' = chunks
                   /\ pc' = "pvm_check"
                   /\ exc' = exc
              [] o = "OSError" ->
                   /\ chunks' = chunks
                   /\ pc' = "wh_end"
                   /\ exc' = "OSError"
    /\ UNCHANGED << unclosed_clips, video, frame_interval, disk, video_file_path, frames,
                    sample_times, tmp_audio, audio_file, contents, summary,
                    status, model_calls >>

\* Line 191: the body is exhausted, the path is returned.
download_video_return ==
    /\ pc = "dl_chunk"
    /\ chunks = 0
    /\ video_file_path' = VIDEO_TMP
    /\ pc' = "pvm_check"
    /\ UNCHANGED << unclosed_clips, video, frame_interval, chunks, disk, frames, sample_times,
                    tmp_audio, audio_file, contents, summary, exc, status,
                    model_calls, log >>

\* --------------------------------------------------- process_video_message
\* Variant of process_video_message_no_video without the return of line 218:
\* after the apology the function runs on into the try block.
process_video_message_no_video_no_return ==
    /\ pc = "pvm_check"
    /\ video_file_path = None
    /\ \E o \in SendOutcomes :
         /\ send_reply(DOWNLOAD_FAILED, o)
         /\ exc' = IF o = "raise" THEN "RequestException" ELSE exc
         /\ pc' = IF o = "raise" THEN "wh_end" ELSE "sv_model"
    /\ UNCHANGED << unclosed_clips, video, frame_interval, chunks, disk, video_file_path,
                    frames, sample_times, tmp_audio, audio_file, contents,
                    summary, status, model_calls >>

\* Lines 216-218: no path: the apology is sent and the function returns.
process_video_message_no_video ==
    /\ pc = "pvm_check"
    /\ video_file_path = None
    /\ \E o \in SendOutcomes :
         /\ send_reply(DOWNLOAD_FAILED, o)
         /\ exc' = IF o = "raise" THEN "RequestException" ELSE exc
    /\ pc' = "wh_end"
    /\ UNCHANGED << unclosed_clips, video, frame_interval, chunks, disk, video_file_path,
                    frames, sample_times, tmp_audio, audio_file, contents,
                    summary, status, model_calls >>

\* Lines 220-222: a path: the try block is entered, summarize_video called.
process_video_message_summarize ==
    /\ pc = "pvm_check"
    /\ video_file_path # None
    /\ pc' = "sv_model"
    /\ UNCHANGED << unclosed_clips, video, frame_interval, chunks, disk, video_file_path,
                    frames, sample_times, tmp_audio, audio_file, contents,
                    summary, exc, status, model_calls, log >>

\* Variant of process_video_message_reply without try/finally: an exception
\* of send_reply leaves process_video_message at once, skipping lines 225-227.
process_video_message_reply_no_finally ==
    /\ pc = "pvm_reply"
    /\ \E o \in SendOutcomes :
         /\ send_reply(summary, o)
         /\ exc' = IF o = "raise" THEN "RequestException" ELSE exc
         /\ pc' = IF o = "raise" THEN "wh_end" ELSE "pvm_finally"
    /\ UNCHANGED << unclosed_clips, video, frame_interval, chunks, disk, video_file_path,
                    frames, sample_times, tmp_audio, audio_file, contents,
                    summary, status, model_calls >>

\* Line 224: the value summarize_video returned is sent.  An exception of
\* send_reply passes through the finally clause.
process_video_message_reply ==
    /\ pc = "pvm_reply"
    /\ \E o \in SendOutcomes :
         /\ send_reply(summary, o)
         /\ exc' = IF o = "raise" THEN "RequestException" ELSE exc
    /\ pc' = "pvm_finally"
    /\ UNCHANGED << unclosed_clips, video, frame_interval, chunks, disk, video_file_path,
                    frames, sample_times, tmp_audio, audio_file, contents,
                    summary, status, model_calls >>

\* Lines 225-227: the finally clause: the video file is removed if it
\* exists.  An exception of os.remove replaces whatever was propagating.
process_video_message_finally ==
    /\ pc = "pvm_finally"
    /\ IF video_file_path # None /\ video_file_path \in disk
       THEN \E o \in RemoveOutcomes :
              /\ Logged(Event("os.remove", video_file_path, o))
              /\ IF o = "ok"
                 THEN disk' = disk \ {video_file_path} /\ exc' = exc
                 ELSE disk' = disk /\ exc' = "OSError"
       ELSE UNCHANGED << disk, exc, log >>
    /\ pc' = "wh_end"
    /\ UNCHANGED << unclosed_clips, video, frame_interval, chunks, video_file_path, frames,
                    sample_times, tmp_audio, audio_file, contents, summary,
                    status, model_calls >>

\* --------------------------------------------------------- summarize_video
\* The parts of the request handed to the model.
text_part(t)  == [mime_type |-> "text/plain", data |-> t]
image_part(f) == [mime_type |-> "image/png",  data |-> f]
audio_part(f) == [mime_type |-> "audio/mpeg", data |-> f]

\* summarize_video leaves with a return value or with an exception; both
\* ends of the call are logged, and process_video_message goes on at
\* line 224 (return) or in its finally clause (exception).
summarize_video_returns(text) ==
    /\ summary' = text
    /\ exc' = exc
    /\ pc' = "pvm_reply"

summarize_video_raises(e) ==
    /\ summary' = None
    /\ exc' = e
    /\ pc' = "pvm_finally"

\* Line 78: the model object is built, outside any try.
summarize_video_model ==
    /\ pc = "sv_model"
    /\ \E o \in {"ok", "raise"} :
         IF o = "ok"
         THEN /\ pc' = "sv_frames"
              /\ UNCHANGED << summary, exc, log >>
         ELSE /\ summarize_video_raises("Exception")
              /\ Logged(Event("summarize_video", None, "raise"))
    /\ UNCHANGED << unclosed_clips, video, frame_interval, chunks, disk, video_file_path,
                    frames, sample_times, tmp_audio, audio_file, contents,
                    status, model_calls >>

\* Variant of summarize_video_frames for a video_to_frames without the
\* except clause of lines 58-60: a decode error reaches the caller.
summarize_video_frames_propagates ==
    /\ pc = "sv_frames"
    /\ LET r == video_to_frames(video, frame_interval)
       IN  /\ frames' = r.ret
           /\ sample_times' = r.times
           /\ Logged(Event("video_to_frames", video_file_path, r.exc))
           /\ unclosed_clips' = unclosed_clips
                                + (IF r.opened /\ ~r.closed THEN 1 ELSE 0)
           /\ IF r.exc = NoExc
              THEN pc' = "ea_open" /\ UNCHANGED << summary, exc >>
              ELSE summarize_video_raises(r.exc)
    /\ UNCHANGED << video, frame_interval, chunks, disk, video_file_path,
                    tmp_audio, audio_file, contents, status, model_calls >>

\* Line 79: frames = video_to_frames(video_file_path, frame_interval).  A
\* clip that was opened and not closed (the exception left the try block
\* before line 56) stays unclosed.
summarize_video_frames ==
    /\ pc = "sv_frames"
    /\ LET r == video_to_frames(video, frame_interval)
       IN  /\ frames' = r.ret
           /\ sample_times' = r.times
           /\ Logged(Event("video_to_frames", video_file_path, r.exc))
           /\ unclosed_clips' = unclosed_clips
                                + (IF r.opened /\ ~r.closed THEN 1 ELSE 0)
    /\ pc' = "ea_open"
    /\ UNCHANGED << video, frame_interval, chunks, disk, video_file_path,
                    tmp_audio, audio_file, contents, summary, exc, status,
                    model_calls >>

\* extract_audio returns to line 80 of summarize_video.
extract_audio_returns(path) ==
    /\ audio_file' = path
    /\ pc' = "sv_check"
    /\ Logged(Event("extract_audio", video_file_path, path))

\* Line 66: the clip is opened; a file the decoder rejects raises, and the
\* except clause returns None.
extract_audio_open ==
    /\ pc = "ea_open"
    /\ IF video.decodable
       THEN /\ pc' = "ea_tmp"
            /\ unclosed_clips' = unclosed_clips + 1
            /\ UNCHANGED << audio_file, log >>
       ELSE /\ extract_audio_returns(None)
            /\ unclosed_clips' = unclosed_clips
    /\ UNCHANGED << video, frame_interval, chunks, disk, video_file_path,
                    frames, sample_times, tmp_audio, contents, summary, exc,
                    status, model_calls >>

\* Line 67: the temporary .mp3 is created on disk (delete=False) and only
\* its name is kept.
extract_audio_tempfile ==
    /\ pc = "ea_tmp"
    /\ \E o \in {"ok", "OSError"} :
         IF o = "ok"
         THEN /\ disk' = disk \cup {AUDIO_TMP}
              /\ tmp_audio' = AUDIO_TMP
              /\ pc' = "ea_write"
              /\ Logged(Event("NamedTemporaryFile", AUDIO_TMP, o))
              /\ UNCHANGED audio_file
         ELSE /\ extract_audio_returns(None)
              /\ UNCHANGED << disk, tmp_audio >>
    /\ UNCHANGED << unclosed_clips, video, frame_interval, chunks, video_file_path, frames,
                    sample_times, contents, summary, exc, status,
                    model_calls >>

\* Lines 68-73: video.audio is None for a clip without audio track
\* (AttributeError), and the transcoding itself can fail; either way the
\* except clause returns None and touches no file (nor the clip).  Otherwise
\* the clip is closed (line 69) and the name of the file is returned.
extract_audio_write ==
    /\ pc = "ea_write"
    /\ \E o \in {"ok", "raise"} :
         IF video.has_audio /\ o = "ok"
         THEN /\ extract_audio_returns(tmp_audio)
              /\ unclosed_clips' = unclosed_clips - 1
         ELSE /\ extract_audio_returns(None)
              /\ unclosed_clips' = unclosed_clips
    /\ UNCHANGED << video, frame_interval, chunks, disk, video_file_path,
                    frames, sample_times, tmp_audio, contents, summary, exc,
                    status, model_calls >>

\* Variant of summarize_video_check that appends the frames back to front.
summarize_video_check_reversed ==
    /\ pc = "sv_check"
    /\ IF frames = << >> /\ audio_file = None
       THEN /\ summarize_video_returns(NO_CONTENT)
            /\ Logged(Event("summarize_video", NO_CONTENT, "return"))
            /\ UNCHANGED contents
       ELSE /\ contents' = << text_part(PROMPT) >>
                           \o [k \in 1..Len(frames) |->
                                 image_part(frames[Len(frames) + 1 - k])]
            /\ pc' = IF audio_file # None THEN "sv_read" ELSE "sv_count"
            /\ UNCHANGED << summary, exc, log >>
    /\ UNCHANGED << unclosed_clips, video, frame_interval, chunks, disk, video_file_path,
                    frames, sample_times, tmp_audio, audio_file, status,
                    model_calls >>

\* Lines 82-88: nothing extracted: the fixed text is returned.  Otherwise
\* the request starts with the prompt and one image part per frame.
summarize_video_check ==
    /\ pc = "sv_check"
    /\ IF frames = << >> /\ audio_file = None
       THEN /\ summarize_video_returns(NO_CONTENT)
            /\ Logged(Event("summarize_video", NO_CONTENT, "return"))
            /\ UNCHANGED contents
       ELSE /\ contents' = << text_part(PROMPT) >>
                           \o [k \in 1..Len(frames) |-> image_part(frames[k])]
            /\ pc' = IF audio_file # None THEN "sv_read" ELSE "sv_count"
            /\ UNCHANGED << summary, exc, log >>
    /\ UNCHANGED << unclosed_clips, video, frame_interval, chunks, disk, video_file_path,
                    frames, sample_times, tmp_audio, audio_file, status,
                    model_calls >>

\* Variant of summarize_video_read_audio that removes the audio file as soon
\* as its bytes are in the request.
summarize_video_read_audio_then_remove ==
    /\ pc = "sv_read"
    /\ \E o \in {"ok", "OSError"} :
         /\ log' = log \o << Event("open", audio_file, o),
                            Event("os.remove", audio_file, "ok") >>
         /\ contents' = IF o = "ok" /\ audio_file \in disk
                        THEN Append(contents, audio_part(audio_file))
                        ELSE contents
    /\ disk' = disk \ {audio_file}
    /\ pc' = "sv_count"
    /\ UNCHANGED << unclosed_clips, video, frame_interval, chunks, video_file_path,
                    frames, sample_times, tmp_audio, audio_file, summary, exc,
                    status, model_calls >>

\* Lines 90-101: the audio file is read and appended as the last part; a
\* failure to read it is printed and nothing is appended.
summarize_video_read_audio ==
    /\ pc = "sv_read"
    /\ \E o \in {"ok", "OSError"} :
         /\ Logged(Event("open", audio_file, o))
         /\ contents' = IF o = "ok" /\ audio_file \in disk
                        THEN Append(contents, audio_part(audio_file))
                        ELSE contents
    /\ pc' = "sv_count"
    /\ UNCHANGED << unclosed_clips, video, frame_interval, chunks, disk, video_file_path,
                    frames, sample_times, tmp_audio, audio_file, summary, exc,
                    status, model_calls >>

ModelCall(fn, res) == [fn |-> fn, contents |-> contents, res |-> res]

\* Variant of summarize_video_count_tokens that tries the token count a
\* second time when the first attempt raised.
summarize_video_count_tokens_retry ==
    /\ pc = "sv_count"
    /\ \E o \in {"ok", "raise"} :
         /\ model_calls' = Append(model_calls, [fn |-> "count_tokens",
                                  contents |-> contents, res |-> o])
         /\ summary' = IF o = "ok" THEN summary ELSE GEMINI_ERROR
         /\ pc' = IF o = "ok" THEN "sv_generate"
                  ELSE IF model_calls = << >> THEN "sv_count"
                  ELSE "sv_finally"
    /\ UNCHANGED << unclosed_clips, video, frame_interval, chunks, disk, video_file_path,
                    frames, sample_times, tmp_audio, audio_file, contents,
                    exc, status, log >>

\* Line 104: model.count_tokens(contents); an exception goes to line 111,
\* which returns the error text (after the finally clause).
summarize_video_count_tokens ==
    /\ pc = "sv_count"
    /\ \E o \in {"ok", "raise"} :
         /\ model_calls' = Append(model_calls, ModelCall("count_tokens", o))
         /\ summary' = IF o = "ok" THEN summary ELSE GEMINI_ERROR
         /\ pc' = IF o = "ok" THEN "sv_generate" ELSE "sv_finally"
    /\ UNCHANGED << unclosed_clips, video, frame_interval, chunks, disk, video_file_path,
                    frames, sample_times, tmp_audio, audio_file, contents,
                    exc, status, log >>

\* Lines 106-113: model.generate_content(contents) and response.text.
summarize_video_generate ==
    /\ pc = "sv_generate"
    /\ \E o \in {"ok", "raise"} :
         /\ model_calls' = Append(model_calls, ModelCall("generate_content", o))
         /\ summary' = IF o = "ok" THEN SUMMARY_TEXT ELSE GEMINI_ERROR
    /\ pc' = "sv_finally"
    /\ UNCHANGED << unclosed_clips, video, frame_interval, chunks, disk, video_file_path,
                    frames, sample_times, tmp_audio, audio_file, contents,
                    exc, status, log >>

\* Variant of summarize_video_finally without the removal of lines 115-116.
summarize_video_finally_no_remove ==
    /\ pc = "sv_finally"
    /\ summarize_video_returns(summary)
    /\ Logged(Event("summarize_video", summary, "return"))
    /\ UNCHANGED << unclosed_clips, video, frame_interval, chunks, disk, video_file_path,
                    frames, sample_times, tmp_audio, audio_file, contents,
                    status, model_calls >>

\* Lines 114-116: the finally clause removes the audio file if there is
\* one; an exception of os.remove replaces the pending return.
summarize_video_finally ==
    /\ pc = "sv_finally"
    /\ IF audio_file # None /\ audio_file \in disk
       THEN \E o \in RemoveOutcomes :
              IF o = "ok"
              THEN /\ disk' = disk \ {audio_file}
                   /\ summarize_video_returns(summary)
                   /\ log' = log \o << Event("os.remove", audio_file, o),
                                      Event("summarize_video", summary, "return") >>
              ELSE /\ disk' = disk
                   /\ summarize_video_raises("OSError")
                   /\ log' = log \o << Event("os.remove", audio_file, o),
                                      Event("summarize_video", None, "raise") >>
       ELSE /\ disk' = disk
            /\ summarize_video_returns(summary)
            /\ Logged(Event("summarize_video", summary, "return"))
    /\ UNCHANGED << unclosed_clips, video, frame_interval, chunks, video_file_path, frames,
                    sample_times, tmp_audio, audio_file, contents, status,
                    model_calls >>

\* ------------------------------------------------------------------- Next
Next ==
    \/ handle_webhook_ack
    \/ download_video_get
    \/ download_video_tempfile
    \/ download_video_chunk
    \/ download_video_return
    \/ process_video_message_no_video
    \/ process_video_message_summarize
    \/ summarize_video_model
    \/ summarize_video_frames
    \/ extract_audio_open
    \/ extract_audio_tempfile
    \/ extract_audio_write
    \/ summarize_video_check
    \/ summarize_video_read_audio
    \/ summarize_video_count_tokens
    \/ summarize_video_generate
    \/ summarize_video_finally
    \/ process_video_message_reply
    \/ process_video_message_finally
    \/ handle_webhook_return

Spec == Init /\ [][Next]_vars

\* video_to_frames on its own: every video and every interval a caller can
\* pass, at the call of line 79.
InitFrames ==
    /\ pc = "sv_frames"
    /\ video \in Videos
    /\ frame_interval \in Intervals
    /\ chunks = 0
    /\ disk = {VIDEO_TMP}
    /\ video_file_path = VIDEO_TMP
    /\ frames = << >>
    /\ sample_times = << >>
    /\ tmp_audio = None
    /\ audio_file = None
    /\ contents = << >>
    /\ summary = None
    /\ exc = NoExc
    /\ status = 0
    /\ model_calls = << >>
    /\ unclosed_clips = 0
    /\ log = << >>

NextFrames == summarize_video_frames

SpecFrames == InitFrames /\ [][NextFrames]_vars

\* The request assembly and the model calls on their own (lines 82-116):
\* every frame list video_to_frames can hand back for some video, with or
\* without an extracted audio file, at the test of line 82.
FrameLists ==
    { [k \in 1..n |-> frame_base64((k - 1) * i)] :
        n \in 0..MaxFrames, i \in 1..MaxInterval }

InitRequest ==
    /\ pc = "sv_check"
    /\ video \in { v \in Videos : v.decodable /\ v.sec = MaxDuration }
    /\ frame_interval = FrameIntervalArg
    /\ chunks = 0
    /\ frames \in FrameLists
    /\ sample_times = << >>
    /\ audio_file \in {None, AUDIO_TMP}
    /\ tmp_audio = audio_file
    /\ disk = IF audio_file = None THEN {VIDEO_TMP} ELSE {VIDEO_TMP, AUDIO_TMP}
    /\ video_file_path = VIDEO_TMP
    /\ contents = << >>
    /\ summary = None
    /\ exc = NoExc
    /\ status = 0
    /\ model_calls = << >>
    /\ unclosed_clips = (IF frames = << >> THEN 1 ELSE 0)
                        + (IF audio_file = None THEN 1 ELSE 0)
    /\ log = << >>

NextRequest ==
    \/ summarize_video_check
    \/ summarize_video_read_audio
    \/ summarize_video_count_tokens
    \/ summarize_video_generate
    \/ summarize_video_finally

SpecRequest == InitRequest /\ [][NextRequest]_vars

\* ------------------------------------------------------ concurrent requests
\* Several webhook requests run process_video_message at the same time, one
\* thread each, sharing only the temporary directory.  The variables pc,
\* video_file_path, tmp_audio and audio_file hold one value per request here;
\* disk holds the files with the request that created each; log records every
\* use of a path that does not name an existing file created by the user;
\* tmp_audio holds the name local to the function that is writing a new file
\* (temp_file.name in download_video, audio_file in extract_audio).
Requests == 1..NumRequests

TempNames(suffix) == { << suffix, n >> : n \in 1..NumNames }

NamesOnDisk == { f.name : f \in disk }

\* Variant of FreshNames for a file created under one fixed name per suffix,
\* whether or not a file of that name exists.
FixedName(suffix) == { << suffix, 1 >> }

\* tempfile.NamedTemporaryFile: a name of the wanted suffix that no existing
\* file has (the file is created with O_EXCL).
FreshNames(suffix) == TempNames(suffix) \ NamesOnDisk

\* The file system after `name` was created by request r / was removed.
Created(name, r) ==
    { f \in disk : f.name # name } \cup { [name |-> name, by |-> r] }

Removed(name) == { f \in disk : f.name # name }

\* os.path.exists(name)
exists(name) == name \in NamesOnDisk

\* What a use of `name` by request r adds to the record: nothing when the
\* name is that of an existing file r created.
Use(r, op, name) ==
    IF [name |-> name, by |-> r] \in disk
    THEN << >>
    ELSE << Event(op, name, IF exists(name) THEN "foreign" ELSE "missing") >>

Goto(r, label) == pc' = [pc EXCEPT ![r] = label]

ConcFrame == << video, frame_interval, chunks, frames, sample_times, contents,
                summary, exc, status, model_calls, unclosed_clips >>

InitConcurrent ==
    /\ pc = [r \in Requests |-> "dl_tmp"]
    /\ video_file_path = [r \in Requests |-> None]
    /\ tmp_audio = [r \in Requests |-> None]
    /\ audio_file = [r \in Requests |-> None]
    /\ disk = {}
    /\ log = << >>
    /\ video \in { v \in Videos : v.decodable /\ v.sec = MaxDuration
                                  /\ v.bad_at = NoBadFrame /\ ~v.frac }
    /\ frame_interval = FrameIntervalArg
    /\ chunks = 0
    /\ frames = << >>
    /\ sample_times = << >>
    /\ contents = << >>
    /\ summary = None
    /\ exc = NoExc
    /\ status = 0
    /\ model_calls = << >>
    /\ unclosed_clips = 0

\* Lines 184-188 for request r: the request fails (None, no file), or the
\* temporary file is created under a fresh name; without a free name
\* NamedTemporaryFile raises.
download_video_tempfile_c(r) ==
    /\ pc[r] = "dl_tmp"
    /\ \/ /\ Goto(r, "done")
          /\ UNCHANGED << disk, tmp_audio >>
       \/ \E n \in FreshNames(".mp4") :
             /\ disk' = Created(n, r)
             /\ tmp_audio' = [tmp_audio EXCEPT ![r] = n]
             /\ Goto(r, "dl_chunk")
    /\ UNCHANGED << video_file_path, audio_file, log, ConcFrame >>

\* Lines 188-195 for request r: the body is written to temp_file.name; on
\* success the path is returned, on an error None (or the exception) leaves
\* and the path is forgotten.
download_video_chunk_c(r) ==
    /\ pc[r] = "dl_chunk"
    /\ log' = log \o Use(r, "open", tmp_audio[r])
    /\ \E o \in {"ok", "error"} :
         IF o = "ok"
         THEN /\ video_file_path' = [video_file_path EXCEPT ![r] = tmp_audio[r]]
              /\ Goto(r, "sv_frames")
         ELSE /\ video_file_path' = video_file_path
              /\ Goto(r, "done")
    /\ tmp_audio' = [tmp_audio EXCEPT ![r] = None]
    /\ UNCHANGED << disk, audio_file, ConcFrame >>

\* Lines 78-79 for request r: the model object is built (an exception leads
\* to the finally clause of line 225), then video_to_frames opens the video
\* file.
summarize_video_frames_c(r) ==
    /\ pc[r] = "sv_frames"
    /\ \/ /\ Goto(r, "pvm_finally")
          /\ log' = log
       \/ /\ Goto(r, "ea_tmp")
          /\ log' = log \o Use(r, "VideoFileClip", video_file_path[r])
    /\ UNCHANGED << disk, video_file_path, tmp_audio, audio_file, ConcFrame >>

\* Lines 66-67 for request r: extract_audio opens the video file and creates
\* the temporary .mp3 under a fresh name (None is returned if that raises).
extract_audio_tempfile_c(r) ==
    /\ pc[r] = "ea_tmp"
    /\ log' = log \o Use(r, "VideoFileClip", video_file_path[r])
    /\ \/ \E n \in FreshNames(".mp3") :
             /\ disk' = Created(n, r)
             /\ tmp_audio' = [tmp_audio EXCEPT ![r] = n]
             /\ Goto(r, "ea_write")
       \/ /\ UNCHANGED << disk, tmp_audio >>
          /\ Goto(r, "pvm_finally")
    /\ UNCHANGED << video_file_path, audio_file, ConcFrame >>

\* Lines 68-73 and 82-84 for request r: the audio is written to the file and
\* its name returned, or None is returned; with no frames and no audio
\* summarize_video returns at line 84.
extract_audio_write_c(r) ==
    /\ pc[r] = "ea_write"
    /\ \E o \in {"ok", "raise"} :
         IF video.has_audio /\ o = "ok"
         THEN /\ log' = log \o Use(r, "write_audiofile", tmp_audio[r])
              /\ audio_file' = [audio_file EXCEPT ![r] = tmp_audio[r]]
              /\ Goto(r, "sv_read")
         ELSE /\ log' = log
              /\ audio_file' = audio_file
              /\ Goto(r, "pvm_finally")
    /\ tmp_audio' = [tmp_audio EXCEPT ![r] = None]
    /\ UNCHANGED << disk, video_file_path, ConcFrame >>

\* Lines 90-113 for request r: the audio file is opened and read, then the
\* model is called.
summarize_video_read_audio_c(r) ==
    /\ pc[r] = "sv_read"
    /\ log' = log \o Use(r, "open", audio_file[r])
    /\ Goto(r, "sv_finally")
    /\ UNCHANGED << disk, video_file_path, tmp_audio, audio_file, ConcFrame >>

\* Lines 114-116 for request r: exists and remove on the audio path.
summarize_video_finally_c(r) ==
    /\ pc[r] = "sv_finally"
    /\ IF exists(audio_file[r])
       THEN /\ log' = log \o Use(r, "os.remove", audio_file[r])
            /\ \E o \in RemoveOutcomes :
                 disk' = IF o = "ok" THEN Removed(audio_file[r]) ELSE disk
       ELSE /\ log' = log \o Use(r, "os.path.exists", audio_file[r])
            /\ disk' = disk
    /\ Goto(r, "pvm_finally")
    /\ UNCHANGED << video_file_path, tmp_audio, audio_file, ConcFrame >>

\* Lines 225-227 for request r: exists and remove on the video path.
process_video_message_finally_c(r) ==
    /\ pc[r] = "pvm_finally"
    /\ IF exists(video_file_path[r])
       THEN /\ log' = log \o Use(r, "os.remove", video_file_path[r])
            /\ \E o \in RemoveOutcomes :
                 disk' = IF o = "ok" THEN Removed(video_file_path[r]) ELSE disk
       ELSE /\ log' = log \o Use(r, "os.path.exists", video_file_path[r])
            /\ disk' = disk
    /\ Goto(r, "done")
    /\ UNCHANGED << video_file_path, tmp_audio, audio_file, ConcFrame >>

NextConcurrent ==
    \E r \in Requests :
        \/ download_video_tempfile_c(r)
        \/ download_video_chunk_c(r)
        \/ summarize_video_frames_c(r)
        \/ extract_audio_tempfile_c(r)
        \/ extract_audio_write_c(r)
        \/ summarize_video_read_audio_c(r)
        \/ summarize_video_finally_c(r)
        \/ process_video_message_finally_c(r)

SpecConcurrent == InitConcurrent /\ [][NextConcurrent]_vars

\* ------------------------------------------------------- reading the log
EventsOf(op) == { i \in DOMAIN log : log[i].op = op }

Removals(f) == { i \in EventsOf("os.remove") : log[i].arg = f }

Replies == EventsOf("send_reply")

\* The reply sent last, if any.
LastReply == log[CHOOSE i \in Replies : \A j \in Replies : j <= i]

\* process_video_message was called (its first step is requests.get).
PipelineEntered == EventsOf("requests.get") # {}

\* download_video returned None: a RequestException at lines 184-185 or
\* while streaming.
DownloadReturnedNone ==
    \E i \in DOMAIN log :
        \/ log[i].op = "requests.get" /\ log[i].res # "ok"
        \/ log[i].op = "iter_content" /\ log[i].res = "ChunkedEncodingError"

\* download_video returned a path to process_video_message.
DownloadSucceeded == video_file_path # None

\* summarize_video has left, by return or by exception.
SummarizeEnded == EventsOf("summarize_video") # {}

SummarizeReturned(text) ==
    \E i \in EventsOf("summarize_video") :
        log[i].res = "return" /\ log[i].arg = text

Finished == pc = "done"

NoSendRaised == \A i \in Replies : log[i].res # "raise"

NoRemoveRaised == \A i \in EventsOf("os.remove") : log[i].res # "raise"

HasMedia(c) ==
    \E k \in DOMAIN c : c[k].mime_type \in {"image/png", "audio/mpeg"}

\* ================================================================= claims

\* C1 (as stated): for every request whose download succeeded, the video
\* temporary file is deleted exactly once, and only after the
\* summarize_video call has ended, on every exit path: when the request has
\* finished the file is gone and exactly one removal of it succeeded.
C1_VideoDeletedOnEveryPath ==
    /\ \A i \in Removals(VIDEO_TMP) : \E j \in EventsOf("summarize_video") : j < i
    /\ (DownloadSucceeded /\ Removals(VIDEO_TMP) = {}) => VIDEO_TMP \in disk
    /\ (Finished /\ DownloadSucceeded) =>
          /\ VIDEO_TMP \notin disk
          /\ Cardinality({ i \in Removals(VIDEO_TMP) : log[i].res = "ok" }) = 1

\* C1 (amended): for every request whose download succeeded, os.remove is
\* called on the video file exactly once, only after the summarize_video call
\* has ended (by return or by exception), on every exit path; until then the
\* file exists, and afterwards it is gone unless that one call raised.
C1_VideoRemovalAttemptedOnce ==
    /\ \A i \in Removals(VIDEO_TMP) : \E j \in EventsOf("summarize_video") : j < i
    /\ (DownloadSucceeded /\ Removals(VIDEO_TMP) = {}) => VIDEO_TMP \in disk
    /\ (Finished /\ DownloadSucceeded) =>
          /\ Cardinality(Removals(VIDEO_TMP)) = 1
          /\ \A i \in Removals(VIDEO_TMP) :
                (log[i].res = "ok") <=> (VIDEO_TMP \notin disk)

\* C1 witness: a finished request whose final send_reply raised and whose
\* video file was nevertheless removed.
C1_Witness ==
    /\ Finished
    /\ DownloadSucceeded
    /\ \E i \in Replies : log[i].arg = SUMMARY_TEXT /\ log[i].res = "raise"
    /\ \E i \in Removals(VIDEO_TMP) : log[i].res = "ok"
    /\ VIDEO_TMP \notin disk

\* C2: no exception escapes process_video_message: whatever the outcomes of
\* download, decoding, audio extraction, audio read, model construction,
\* token count, generation and file removal, a finished request has no
\* exception propagating and its last reply is one of the result texts.
\* (Stated for the runs in which send_reply itself does not raise.)
C2_NoExceptionEscapes ==
    (Finished /\ PipelineEntered /\ NoSendRaised) =>
        /\ exc = NoExc
        /\ LastReply.arg \in {DOWNLOAD_FAILED, NO_CONTENT, GEMINI_ERROR,
                              SUMMARY_TEXT}

\* Both extraction stages ran and gave nothing.
BothExtractionsFailed ==
    /\ frames = << >>
    /\ \E i \in EventsOf("extract_audio") : log[i].res = None

\* C3: if frame sampling and audio extraction both fail, the request ends
\* with the nothing-to-summarize text, without an exception, and no temporary
\* file is left on disk.  (Stated for the runs in which no send_reply and no
\* os.remove raises.)
C3_NothingLeftWhenBothFail ==
    (Finished /\ BothExtractionsFailed /\ NoSendRaised /\ NoRemoveRaised) =>
        /\ SummarizeReturned(NO_CONTENT)
        /\ LastReply.arg = NO_CONTENT
        /\ exc = NoExc
        /\ disk = {}

\* C4: if count_tokens or generate_content raises, summarize_video returns
\* the (non-empty) error text instead of raising, and that text is the final
\* reply.
C4_ModelErrorBecomesReply ==
    ( /\ \E k \in DOMAIN model_calls : model_calls[k].res = "raise"
      /\ pc \in {"pvm_reply", "pvm_finally", "wh_end", "done"} ) =>
        /\ GEMINI_ERROR # ""
        /\ SummarizeReturned(GEMINI_ERROR)
        /\ exc \in {NoExc, "RequestException"}
        /\ pc # "pvm_reply" => LastReply.arg = GEMINI_ERROR

\* C5: when download_video returns None, the apology is the final reply and
\* no later stage runs: no sampling, no audio extraction, no model call and
\* no file removal.
C5_DownloadFailureStopsPipeline ==
    DownloadReturnedNone =>
        /\ pc \in {"pvm_check", "wh_end", "done"}
        /\ video_file_path = None
        /\ model_calls = << >>
        /\ \A i \in DOMAIN log :
              log[i].op \in {"send_reply", "requests.get",
                             "NamedTemporaryFile", "iter_content"}
        /\ \A i \in EventsOf("NamedTemporaryFile") : log[i].arg = VIDEO_TMP
        /\ pc # "pvm_check" =>
              /\ LastReply.arg = DOWNLOAD_FAILED
              /\ Cardinality(Replies) = 2

\* C5 witness: a finished request whose download failed and whose last
\* reply is the apology.
C5_Witness ==
    /\ Finished
    /\ DownloadReturnedNone
    /\ LastReply.arg = DOWNLOAD_FAILED

\* C6: download_video creates exactly one temporary file when it returns a
\* path, and leaves none behind when it returns None (request error,
\* non-2xx status, network error while streaming).
C6_DownloadLeavesNoPartialFile ==
    pc = "pvm_check" =>
        IF video_file_path # None
        THEN /\ disk = {VIDEO_TMP}
             /\ Cardinality(EventsOf("NamedTemporaryFile")) = 1
        ELSE disk = {}

\* C7: whenever extract_audio returns None, no temporary audio file it
\* created is left on disk.
C7_NoAudioLeakOnFailure ==
    (pc = "sv_check" /\ audio_file = None) => AUDIO_TMP \notin disk

\* C8: the model is never called (count_tokens, generate_content) with a
\* request that has neither an image part nor an audio part.
C8_ModelNeverCalledWithoutMedia ==
    \A k \in DOMAIN model_calls : HasMedia(model_calls[k].contents)

\* Exactly one of the two extraction stages gave content.
ExactlyOneExtracted == ~((frames # << >>) <=> (audio_file # None))

\* The request made of exactly what was extracted.
ObtainedParts ==
    << text_part(PROMPT) >>
    \o [k \in 1..Len(frames) |-> image_part(frames[k])]
    \o (IF audio_file # None THEN << audio_part(audio_file) >> ELSE << >>)

\* C9: if exactly one of frame sampling and audio extraction yields content,
\* the model is called, with a request holding exactly the obtained parts,
\* and the result is not the nothing-to-summarize text.
C9_PartialExtractionProceeds ==
    ( /\ ExactlyOneExtracted
      /\ pc \in {"sv_generate", "sv_finally", "pvm_reply", "pvm_finally",
                 "wh_end", "done"} ) =>
        /\ model_calls # << >>
        /\ \A k \in DOMAIN model_calls : model_calls[k].contents = ObtainedParts
        /\ ~SummarizeReturned(NO_CONTENT)

\* C10: for an interval i > 0 and a decodable video of duration D,
\* video_to_frames returns floor(D / i) frames, sampled at the multiples
\* 0, i, 2i, ... of i, strictly increasing and all < D.
C10_FrameCountAndTimes ==
    (pc = "ea_open" /\ video.decodable) =>
        /\ Len(frames) = video.sec \div frame_interval.val
        /\ Len(sample_times) = Len(frames)
        /\ \A k \in DOMAIN sample_times :
              /\ sample_times[k] = (k - 1) * frame_interval.val
              /\ \/ sample_times[k] < video.sec
                 \/ sample_times[k] = video.sec /\ video.frac

\* The audio file was read into the request (lines 92-99).
AudioRead == \E i \in EventsOf("open") : log[i].res = "ok"

\* C11: every request handed to the model is the instruction text, then one
\* image part per frame in the order of the frame list, then the audio part
\* last if and only if audio was extracted and read; count_tokens and
\* generate_content receive the same sequence.
C11_RequestPartOrder ==
    \A k \in DOMAIN model_calls :
        /\ model_calls[k].contents =
              << text_part(PROMPT) >>
              \o [j \in 1..Len(frames) |-> image_part(frames[j])]
              \o (IF AudioRead THEN << audio_part(audio_file) >> ELSE << >>)
        /\ model_calls[k].contents = model_calls[1].contents

\* C11 witness: both model calls were made for a request with two or more
\* frames and the audio part.
C11_Witness ==
    /\ Len(model_calls) = 2
    /\ Len(frames) >= 2
    /\ AudioRead
    /\ model_calls[2].fn = "generate_content"

\* The replies sent after the acknowledgement.
FinalReplies == { i \in Replies : log[i].arg # ACK_TEXT }

\* C12: exactly one final reply is sent per video request after the
\* acknowledgement, and it is the summary text or one of the failure texts:
\* never two, never none.
C12_ExactlyOneFinalReply ==
    (Finished /\ PipelineEntered) =>
        /\ Cardinality(FinalReplies) = 1
        /\ \A i \in FinalReplies :
              log[i].arg \in {SUMMARY_TEXT, DOWNLOAD_FAILED, NO_CONTENT,
                              GEMINI_ERROR}

\* C13: the acknowledgement is sent before any stage of the pipeline
\* (download, sampling, extraction, model call) starts and before the final
\* reply: until it is sent nothing has happened, and afterwards it is the
\* first operation on record and the only acknowledgement.
C13_AckBeforePipeline ==
    /\ pc = "ack" => (log = << >> /\ model_calls = << >> /\ disk = {})
    /\ pc # "ack" =>
          /\ log # << >>
          /\ log[1].op = "send_reply"
          /\ log[1].arg = ACK_TEXT
          /\ \A i \in Replies : log[i].arg = ACK_TEXT => i = 1
          /\ \A i \in FinalReplies : i > 1

\* C13 witness: a finished request whose pipeline ran through download,
\* extraction and model call and sent the summary.
C13_Witness ==
    /\ Finished
    /\ Len(model_calls) = 2
    /\ LastReply.arg = SUMMARY_TEXT

\* C14 (as stated): an audio file that was created is deleted right after
\* being read into the request, before count_tokens / generate_content is
\* called.
C14_AudioDeletedBeforeModelCall ==
    (audio_file # None /\ model_calls # << >>) => AUDIO_TMP \notin disk

\* C14 (amended): an audio file extract_audio returned stays on disk while it
\* is read and across the model calls; its removal is attempted exactly once,
\* in the finally clause of summarize_video, after the model call and before
\* summarize_video ends, hence before the removal of the video file.
C14_AudioHeldAcrossModelCall ==
    /\ (audio_file # None /\ pc \in {"sv_read", "sv_count", "sv_generate",
                                     "sv_finally"}) =>
          /\ AUDIO_TMP \in disk
          /\ Removals(AUDIO_TMP) = {}
    /\ (audio_file # None /\ SummarizeEnded) =>
          /\ model_calls # << >>
          /\ Cardinality(Removals(AUDIO_TMP)) = 1
          /\ \A i \in Removals(AUDIO_TMP) :
                /\ \A j \in EventsOf("summarize_video") : i < j
                /\ \A j \in Removals(VIDEO_TMP) : i < j

\* C14 witness: summarize_video has ended after both model calls and the
\* audio file has been removed.
C14_Witness ==
    /\ audio_file # None
    /\ SummarizeEnded
    /\ Len(model_calls) = 2
    /\ AUDIO_TMP \notin disk

\* The model calls of summarize_video are over.
ModelCallsOver == pc \in {"sv_finally", "pvm_reply", "pvm_finally", "wh_end",
                          "done"}

\* C15: whenever the model is reached, count_tokens is called first and
\* generate_content is then called on the same request, whatever the outcome
\* of count_tokens.
C15_EstimateNeverSuppressesGeneration ==
    (ModelCallsOver /\ model_calls # << >>) =>
        /\ Len(model_calls) = 2
        /\ model_calls[1].fn = "count_tokens"
        /\ model_calls[2].fn = "generate_content"
        /\ model_calls[2].contents = model_calls[1].contents

\* The calls made of one model function.
CallsOf(fn) == { k \in DOMAIN model_calls : model_calls[k].fn = fn }

\* C17: no stage is retried: download, frame sampling, audio extraction,
\* token estimate and generation are each attempted at most once in a
\* request, whatever the outcome.
C17_NoStageRetried ==
    /\ Cardinality(EventsOf("requests.get")) <= 1
    /\ Cardinality({ i \in EventsOf("NamedTemporaryFile") :
                       log[i].arg = VIDEO_TMP }) <= 1
    /\ Cardinality(EventsOf("video_to_frames")) <= 1
    /\ Cardinality(EventsOf("extract_audio")) <= 1
    /\ Cardinality(CallsOf("count_tokens")) <= 1
    /\ Cardinality(CallsOf("generate_content")) <= 1

\* C17 witness: a finished request whose token count raised and was not
\* tried again.
C17_Witness ==
    /\ Finished
    /\ Len(model_calls) = 1
    /\ model_calls[1].res = "raise"

\* summarize_video left by a return statement.
SummarizeReturnedNormally ==
    \E i \in EventsOf("summarize_video") : log[i].res = "return"

\* C19: whenever extract_audio returned a path, that file no longer exists
\* when summarize_video returns: after a successful generation, after a model
\* error, and after a failure to read the audio file.
C19_AudioGoneWhenSummarizeReturns ==
    (audio_file # None /\ SummarizeReturnedNormally) => AUDIO_TMP \notin disk

\* C19 witness: summarize_video returned the model-error text for a request
\* whose audio file had been extracted but could not be read.
C19_Witness ==
    /\ audio_file # None
    /\ SummarizeReturned(GEMINI_ERROR)
    /\ ~AudioRead
    /\ AUDIO_TMP \notin disk

\* C16: any decode error in video_to_frames (the video cannot be opened, a
\* frame cannot be read, the sampling loop fails) gives the caller an empty
\* frame list and no exception; no frame captured before the error is
\* returned.
C16_DecodeErrorGivesEmptyList ==
    \A i \in EventsOf("video_to_frames") :
        log[i].res # NoExc =>
            /\ frames = << >>
            /\ exc = NoExc
            /\ pc = "ea_open"

\* C16 witness: video_to_frames has returned after an error inside the
\* sampling loop of a video that could be opened.
C16_Witness ==
    /\ pc = "ea_open"
    /\ video.decodable
    /\ video.sec >= 2
    /\ \E i \in EventsOf("video_to_frames") : log[i].res # NoExc

\* C20: every VideoFileClip opened by video_to_frames or extract_audio has
\* been closed when that function returns, on the failure paths too, so none
\* is open when process_video_message removes the video file.
C20_ClipsClosedOnReturn ==
    pc \in {"ea_open", "sv_check", "pvm_finally"} => unclosed_clips = 0

\* The paths request r still holds and will use: the video path until the
\* finally clause of line 225 has run, the audio path until that of line 114
\* has, the name of a file being written until the writer returns.
PathsInUse(r) ==
    (IF pc[r] \in {"sv_frames", "ea_tmp", "ea_write", "sv_read", "sv_finally",
                   "pvm_finally"}
     THEN {video_file_path[r]} ELSE {})
    \cup (IF pc[r] \in {"sv_read", "sv_finally"} THEN {audio_file[r]} ELSE {})
    \cup (IF pc[r] \in {"dl_chunk", "ea_write"} THEN {tmp_audio[r]} ELSE {})

\* C18: with requests running concurrently in any interleaving, every
\* temporary file has exactly one creator, every path a request holds names
\* an existing file that this request created, no two requests hold the same
\* path, and no request has used a path naming a file of another request or
\* a file already deleted.
C18_FilesOwnedByOneRequest ==
    /\ log = << >>
    /\ \A f, g \in disk : f.name = g.name => f = g
    /\ \A r \in Requests : \A n \in PathsInUse(r) :
          [name |-> n, by |-> r] \in disk
    /\ \A r, q \in Requests : r # q => PathsInUse(r) \cap PathsInUse(q) = {}

\* C18 witness: two requests are between extraction and cleanup at the same
\* time, each holding its own video and audio file.
C18_Witness ==
    \E r, q \in Requests :
        /\ r # q
        /\ pc[r] = "sv_finally"
        /\ pc[q] = "sv_finally"
        /\ Cardinality(disk) >= 4

====
